---- MODULE Spec2Model ----
(***************************************************************************)
(* Room-scoped connection registry and broadcast relay of                  *)
(* webrtc-stack/signaling/main.py (ws_endpoint).                           *)
(*                                                                         *)
(* One asyncio task runs ws_endpoint per connection; tasks are scheduled   *)
(* cooperatively, so the code between two awaits is one atomic step.  The  *)
(* awaits are ws.accept() (line 28), ws.receive_text() (line 38) and       *)
(* peer.send_text(msg) (line 44).  A control position names the await a    *)
(* task is suspended in:                                                   *)
(*   "new"        not joined: no handshake yet, or suspended in            *)
(*                await ws.accept() (line 28), which touches no shared     *)
(*                state, or ended by an exception of accept()              *)
(*   "recv"       suspended in await ws.receive_text()      (line 38)      *)
(*   "send"       suspended in await peer.send_text(msg)    (line 44)      *)
(*   "left"       the finally block has run                 (lines 51-54)  *)
(***************************************************************************)
EXTENDS Integers, Sequences, FiniteSets, TLC

\* ---------------------------------------------------------------- bounds
\* Connections that may arrive, and messages received over all connections.
MaxConns == 3
MaxMsgs  == 2

Conns == 1..MaxConns

\* Values of the "room" query parameter a client may supply; Absent stands
\* for a handshake without the parameter.
Absent     == "<absent>"
RoomParams == {Absent, "alpha"}

\* ------------------------------------------------------- pure operators
\* Faulty variant of RoomOf: no fallback name, the room of a request without
\* the parameter being the missing value itself.
RoomOfRaw(q) == q

\* line 27: ws.query_params.get("room", "default")
RoomOf(q) == IF q = Absent THEN "default" ELSE q

RoomNames == {RoomOf(q) : q \in RoomParams}

\* Faulty variant of Join: the room name is ignored, everybody joins "default".
JoinDefault(rms, r, ws) ==
    LET base == IF "default" \in DOMAIN rms
                THEN rms
                ELSE [x \in (DOMAIN rms) \cup {"default"} |->
                         IF x = "default" THEN {} ELSE rms[x]]
    IN  [base EXCEPT !["default"] = @ \cup {ws}]

\* lines 31-33: create the room's set if the key is absent, then add ws
Join(rms, r, ws) ==
    LET base == IF r \in DOMAIN rms
                THEN rms
                ELSE [x \in (DOMAIN rms) \cup {r} |->
                         IF x = r THEN {} ELSE rms[x]]
    IN  [base EXCEPT ![r] = @ \cup {ws}]

\* Faulty variant of Leave: the connection is never removed.
LeaveKeep(rms, r, ws) == rms

\* Faulty variant of Leave: no membership test before the removal, so that
\* rooms[room].remove(ws) raises KeyError for an unknown room or a connection
\* that is not in the set.
LeaveUnguarded(rms, r, ws) ==
    IF r \in DOMAIN rms /\ ws \in rms[r]
    THEN [rms EXCEPT ![r] = @ \ {ws}]
    ELSE [raised |-> {"KeyError"}]

\* Faulty variant of Leave: the room's entry is deleted with its last member.
LeaveDelete(rms, r, ws) ==
    IF r \in DOMAIN rms /\ ws \in rms[r]
    THEN IF rms[r] = {ws}
         THEN [x \in (DOMAIN rms) \ {r} |-> rms[x]]
         ELSE [rms EXCEPT ![r] = @ \ {ws}]
    ELSE rms

\* lines 53-54: remove ws from the room's set when both are present
Leave(rms, r, ws) ==
    IF r \in DOMAIN rms /\ ws \in rms[r]
    THEN [rms EXCEPT ![r] = @ \ {ws}]
    ELSE rms

\* Faulty variant of Snapshot: the members of every room.
SnapshotAll(rms, r) == UNION {rms[x] : x \in DOMAIN rms}

\* line 41: rooms.get(room, []) -- the members of the room, none if unknown
Snapshot(rms, r) == IF r \in DOMAIN rms THEN rms[r] ELSE {}

\* Faulty variant of SetToSeqs: a list of the right length read from a set
\* that changes under the reader, which may miss a member and repeat another.
SetToSeqsAny(S) == [1..Cardinality(S) -> S]

\* line 41: list(<set>) -- a list holding each member once, in the set's
\* iteration order, which the language leaves unspecified
SetToSeqs(S) ==
    {s \in [1..Cardinality(S) -> S] :
        \A i, j \in 1..Cardinality(S) : i # j => s[i] # s[j]}

\* Faulty variant of IsTarget: no identity test.
IsTargetAny(peer, ws) == TRUE

\* line 42: if peer is not ws
IsTarget(peer, ws) == peer # ws

\* Faulty variant of NextTarget: the loop stops at the sender's own entry
\* instead of skipping it.
NextTargetBreak(rest, ws) ==
    IF rest = <<>> THEN <<>>
    ELSE IF IsTarget(Head(rest), ws) THEN rest
    ELSE <<>>

RECURSIVE NextTarget(_, _)
\* lines 41-42: the for statement steps through the list until an element
\* passes the identity test; the result is what is left of the list from
\* that element on, empty when the list is exhausted
NextTarget(rest, ws) ==
    IF rest = <<>> THEN <<>>
    ELSE IF IsTarget(Head(rest), ws) THEN rest
    ELSE NextTarget(Tail(rest), ws)

\* Faulty variant of AfterSend: an exception of send_text is not caught.
AfterSendPropagate(res) == IF res = "fail" THEN "finally" ELSE "next_peer"

\* lines 43-47: a normal return and an exception of send_text (caught by
\* "except Exception: pass") both go on with the for loop
AfterSend(res) == "next_peer"

\* Faulty variant of IterRaises: the set itself is iterated, without a copy.
IterRaisesLive(members, live) == Cardinality(live) # Cardinality(members)

\* line 41: the for statement iterates a list copy, so a change of the room's
\* set during the pass never makes the iterator raise (iterating the set
\* itself raises RuntimeError once its size has changed)
IterRaises(members, live) == FALSE

\* Faulty variant of ExitPath: cleanup only in the WebSocketDisconnect handler.
ExitPathNoFinally(sig) == IF sig = "error" THEN "crashed" ELSE "finally"

\* lines 48-51: WebSocketDisconnect is caught and any other exception
\* propagates, and both run the finally block on the way out
ExitPath(sig) == "finally"

\* Faulty variant of CanReceive: the next message is received while the sends
\* of the previous pass are still outstanding.
CanReceiveOverlap(p) == p \in {"recv", "send"}

\* lines 36-44: receive_text is awaited only between passes, the sends of a
\* pass being awaited one by one inside the loop body
CanReceive(p) == p = "recv"

\* Faulty variant of CanRaise: the end of the sender's connection interrupts
\* the pass in progress.
CanRaiseAnywhere(p) == p \in {"recv", "send"}

\* lines 35-50: WebSocketDisconnect, and any exception that is not swallowed
\* by lines 45-47, comes out of the receive_text of line 38, so the task is
\* taken out of its loop only while it waits there
CanRaise(p) == p = "recv"

\* ---------------------------------------------------------------- state
VARIABLES
    rooms,        \* line 15: rooms, a map from room name to set of connections
    pc,           \* control position of each connection's ws_endpoint task
    room,         \* line 27: the local variable room of each task
    msg,          \* line 38: the local variable msg (0 before the first
                  \* receive; messages of one sender are numbered 1, 2, ...)
    snapshot,     \* line 41: what is left to iterate of the list of the for
                  \* statement; its head is the peer being sent to
    transport,    \* what the client side of each connection has done
    recvCount,    \* number of messages receive_text has returned
    log,          \* history: log[a][b] lists the calls peer.send_text(msg)
                  \* that a's task made on b
    leaveCalls,   \* history: number of runs of the finally block
    exitSig,      \* history: what ended the receive loop
    passMembers,  \* history: members of the room when msg was received
    passLeft,     \* history: connections already left when msg was received
    param         \* history: the room query parameter of each connection's
                  \* request (Absent before the request is made)

vars == <<rooms, pc, room, msg, snapshot, transport, recvCount,
          log, leaveCalls, exitSig, passMembers, passLeft, param>>

NoRooms == [x \in {} |-> {}]

Init ==
    /\ rooms = NoRooms
    /\ pc = [c \in Conns |-> "new"]
    /\ room = [c \in Conns |-> "default"]
    /\ msg = [c \in Conns |-> 0]
    /\ snapshot = [c \in Conns |-> <<>>]
    /\ transport = [c \in Conns |-> "none"]
    /\ recvCount = [c \in Conns |-> 0]
    /\ log = [a \in Conns |-> [b \in Conns |-> <<>>]]
    /\ leaveCalls = [c \in Conns |-> 0]
    /\ exitSig = [c \in Conns |-> "none"]
    /\ passMembers = [c \in Conns |-> {}]
    /\ passLeft = [c \in Conns |-> {}]
    /\ param = [c \in Conns |-> Absent]

RECURSIVE SumTo(_, _)
SumTo(f, k) == IF k = 0 THEN 0 ELSE f[k] + SumTo(f, k - 1)

\* Number of messages received so far over all connections.
Received == SumTo(recvCount, MaxConns)

\* The record of one call peer.send_text(msg): the message, the outcome,
\* the snapshot members that were no longer in the room when the call was
\* made, and what was true of the peer when the snapshot was taken.
Attempt(c, peer, m, rms, members, gone) ==
    [n |-> m, res |-> "pending",
     departed |-> {p \in members :
                     room[c] \notin DOMAIN rms \/ p \notin rms[room[c]]},
     atSnap |-> peer \in members,
     leftBefore |-> peer \in gone]

\* ------------------------------------------------------- ws_endpoint
\* lines 25-33: a client connects, with or without a room parameter; line 27
\* resolves the room, line 28 accepts, lines 31-33 join the room, and the
\* task suspends in receive_text (line 38).  Connections are numbered in
\* order of arrival.
Accept(c, q) ==
    /\ pc[c] = "new"
    /\ IF c = 1 THEN TRUE ELSE pc[c - 1] # "new"
    /\ room' = [room EXCEPT ![c] = RoomOf(q)]
    /\ param' = [param EXCEPT ![c] = q]
    /\ rooms' = Join(rooms, RoomOf(q), c)
    /\ pc' = [pc EXCEPT ![c] = "recv"]
    /\ transport' = [transport EXCEPT ![c] = "open"]
    /\ UNCHANGED <<msg, snapshot, recvCount, log,
                   leaveCalls, exitSig, passMembers, passLeft>>

\* The client side of a joined connection goes away, by an orderly close or
\* by a failure: receive_text will raise when next awaited.
TransportEnd(c) ==
    /\ transport[c] = "open"
    /\ transport' = [transport EXCEPT ![c] = "ended"]
    /\ UNCHANGED <<rooms, pc, room, param, msg, snapshot, recvCount,
                   log, leaveCalls, exitSig, passMembers, passLeft>>

\* lines 51-54: the finally block, reached from control position "how";
\* ws_endpoint is left and the framework closes the connection (line 55).
RunFinally(c, how) ==
    /\ transport' = [transport EXCEPT ![c] = "ended"]
    /\ IF how = "finally"
       THEN /\ rooms' = Leave(rooms, room[c], c)
            /\ pc' = [pc EXCEPT ![c] = "left"]
            /\ leaveCalls' = [leaveCalls EXCEPT ![c] = @ + 1]
       ELSE /\ pc' = [pc EXCEPT ![c] = how]
            /\ UNCHANGED <<rooms, leaveCalls>>

\* line 38 returns the client's next message; line 41 takes the snapshot;
\* lines 41-44 run up to the first send_text, or, with nobody to send to,
\* back to line 38.
ReceiveText(c) ==
    /\ CanReceive(pc[c])
    /\ transport[c] = "open"
    /\ Received < MaxMsgs
    /\ recvCount' = [recvCount EXCEPT ![c] = @ + 1]
    /\ msg' = [msg EXCEPT ![c] = recvCount[c] + 1]
    /\ \E snap \in SetToSeqs(Snapshot(rooms, room[c])) :
         LET rest  == NextTarget(snap, c)
             gone  == {p \in Conns : pc[p] = "left"}
             mem   == IF room[c] \in DOMAIN rooms THEN rooms[room[c]] ELSE {}
         IN  IF rest # <<>>
             THEN /\ pc' = [pc EXCEPT ![c] = "send"]
                  /\ snapshot' = [snapshot EXCEPT ![c] = rest]
                  /\ passMembers' = [passMembers EXCEPT ![c] = mem]
                  /\ passLeft' = [passLeft EXCEPT ![c] = gone]
                  /\ log' = [log EXCEPT ![c][Head(rest)] =
                               Append(@, Attempt(c, Head(rest),
                                                 recvCount[c] + 1,
                                                 rooms, mem, gone))]
             ELSE /\ pc' = [pc EXCEPT ![c] = "recv"]
                  /\ snapshot' = [snapshot EXCEPT ![c] = <<>>]
                  /\ passMembers' = [passMembers EXCEPT ![c] = {}]
                  /\ passLeft' = [passLeft EXCEPT ![c] = {}]
                  /\ log' = log
    /\ UNCHANGED <<rooms, room, param, transport, leaveCalls, exitSig>>

\* line 38 raises WebSocketDisconnect: the client has closed (lines 48-54).
ReceiveDisconnect(c) ==
    /\ CanRaise(pc[c])
    /\ transport[c] = "ended"
    /\ exitSig' = [exitSig EXCEPT ![c] = "disconnect"]
    /\ RunFinally(c, ExitPath("disconnect"))
    /\ UNCHANGED <<room, param, msg, snapshot, recvCount, log,
                   passMembers, passLeft>>

\* line 38 raises any other exception, because the connection broke or
\* because what the client sent is not a text message (lines 51-54).
ReceiveError(c) ==
    /\ CanRaise(pc[c])
    /\ transport[c] \in {"open", "ended"}
    /\ exitSig' = [exitSig EXCEPT ![c] = "error"]
    /\ RunFinally(c, ExitPath("error"))
    /\ UNCHANGED <<room, param, msg, snapshot, recvCount, log,
                   passMembers, passLeft>>

\* line 44 returns or raises for the peer at the head of the list; lines
\* 45-47 and the for statement of line 41 then go on to the next send_text,
\* or back to line 38 when the list is exhausted.
SendReturn(c, res) ==
    /\ pc[c] = "send"
    /\ LET peer  == Head(snapshot[c])
           done  == [log EXCEPT ![c][peer] =
                       [@ EXCEPT ![Len(@)] = [@ EXCEPT !.res = res]]]
           rest  == NextTarget(Tail(snapshot[c]), c)
           how   == IF AfterSend(res) # "next_peer" THEN AfterSend(res)
                    ELSE IF IterRaises(passMembers[c],
                                       Snapshot(rooms, room[c]))
                    THEN "finally"
                    ELSE "next_peer"
       IN  IF how # "next_peer"
           THEN /\ log' = done
                /\ RunFinally(c, how)
                /\ exitSig' = [exitSig EXCEPT ![c] = "raised"]
                /\ UNCHANGED <<snapshot, passMembers, passLeft>>
           ELSE IF rest # <<>>
           THEN /\ log' = [done EXCEPT ![c][Head(rest)] =
                             Append(@, Attempt(c, Head(rest), msg[c], rooms,
                                               passMembers[c], passLeft[c]))]
                /\ snapshot' = [snapshot EXCEPT ![c] = rest]
                /\ UNCHANGED <<rooms, pc, transport, leaveCalls, exitSig,
                               passMembers, passLeft>>
           ELSE /\ log' = done
                /\ pc' = [pc EXCEPT ![c] = "recv"]
                /\ snapshot' = [snapshot EXCEPT ![c] = <<>>]
                /\ passMembers' = [passMembers EXCEPT ![c] = {}]
                /\ passLeft' = [passLeft EXCEPT ![c] = {}]
                /\ UNCHANGED <<rooms, transport, leaveCalls, exitSig>>
    /\ UNCHANGED <<room, param, msg, recvCount>>

Next ==
    \/ \E c \in Conns, q \in RoomParams : Accept(c, q)
    \/ \E c \in Conns : TransportEnd(c)
    \/ \E c \in Conns : ReceiveText(c)
    \/ \E c \in Conns : ReceiveDisconnect(c)
    \/ \E c \in Conns : ReceiveError(c)
    \/ \E c \in Conns, res \in {"ok", "fail"} : SendReturn(c, res)

Spec == Init /\ [][Next]_vars

TypeOK ==
    /\ DOMAIN rooms \subseteq RoomNames
    /\ \A r \in DOMAIN rooms : rooms[r] \subseteq Conns
    /\ pc \in [Conns -> {"new", "recv", "send", "left"}]
    /\ Received <= MaxMsgs
    /\ param \in [Conns -> RoomParams]
    /\ \A c \in Conns : pc[c] # "new" => room[c] = RoomOf(param[c])


\* receive_text raises for a connection whose transport has ended.
ReceiveEnd(c) ==
    /\ transport[c] = "ended"
    /\ ReceiveDisconnect(c) \/ ReceiveError(c)

\* Under fair scheduling every task suspended in send_text is resumed (each
\* send attempt terminates) and every task whose receive_text has the end of
\* its transport to report is resumed.
FairSpec ==
    /\ Spec
    /\ \A c \in Conns : WF_vars(\E res \in {"ok", "fail"} : SendReturn(c, res))
    /\ \A c \in Conns : WF_vars(ReceiveEnd(c))

\* ------------------------------------------------------------ vocabulary
Range(s) == {s[i] : i \in 1..Len(s)}

\* Number of send_text calls a's task has made on b for a's message m.
Count(lg, a, b, m) == Cardinality({i \in 1..Len(lg[a][b]) : lg[a][b][i].n = m})

\* The members of c's room, read off the registry directly.
MembersOf(c) == IF room[c] \in DOMAIN rooms THEN rooms[room[c]] ELSE {}

InSomeRoom(c) == \E r \in DOMAIN rooms : c \in rooms[r]

\* a's task returns from receive_text with a message in this step.
ReceiveStep(a) == recvCount'[a] = recvCount[a] + 1

\* a's task returns from a send_text in this step.
SendStep(a) == pc[a] = "send" /\ log'[a] # log[a]

\* The broadcast pass of a ends in this step.
PassEnds(a) == pc[a] = "send" /\ pc'[a] # "send"

\* The send_text a's task is suspended in fails in this step.
FailStep(a) ==
    /\ pc[a] = "send"
    /\ LET b == Head(snapshot[a])
       IN  /\ Len(log'[a][b]) >= Len(log[a][b])
           /\ log[a][b][Len(log[a][b])].res = "pending"
           /\ log'[a][b][Len(log[a][b])].res = "fail"

\* What is left of a's list after the peer being sent to, the sender excluded.
Ahead(a) == Range(Tail(snapshot[a])) \ {a}

\* ---------------------------------------------------------------- claims

\* C1: when a's task receives a message while a and b are both members of the
\* room, the pass makes exactly one send_text call on b for it: none is made
\* twice, a pass in progress has called exactly the members no longer ahead in
\* the list, and a pass that ends has called every other member once, each
\* call having returned or failed.
C1_ExactlyOnce ==
    /\ [](\A a, b \in Conns : \A m \in 1..MaxMsgs : Count(log, a, b, m) <= 1)
    /\ [](\A a \in Conns : pc[a] = "send" =>
            \A b \in passMembers[a] \ {a} :
               Count(log, a, b, msg[a]) = IF b \in Ahead(a) THEN 0 ELSE 1)
    /\ [][\A a \in Conns :
            /\ (ReceiveStep(a) /\ pc'[a] = "send") =>
                  passMembers'[a] = MembersOf(a)
            /\ (ReceiveStep(a) /\ pc'[a] # "send") => MembersOf(a) \subseteq {a}
            /\ (PassEnds(a) /\ pc'[a] = "recv") =>
                  \A b \in passMembers[a] \ {a} :
                     /\ Count(log', a, b, msg[a]) = 1
                     /\ \A i \in 1..Len(log'[a][b]) :
                           log'[a][b][i].res \in {"ok", "fail"}]_vars

\* C1 witness: a pass over two other members has ended with one delivered
\* call on each.
C1_Witness ==
    \E a, b, c \in Conns :
       /\ a # b /\ b # c /\ a # c
       /\ pc[a] = "recv" /\ recvCount[a] = 1
       /\ Len(log[a][b]) = 1 /\ log[a][b][1].res = "ok"
       /\ Len(log[a][c]) = 1 /\ log[a][c][1].res = "ok"

\* C2: no task ever calls send_text on its own connection, and is never
\* suspended in a send to itself.
C2_NeverToSelf ==
    \A a \in Conns :
       /\ log[a][a] = <<>>
       /\ pc[a] = "send" => Head(snapshot[a]) # a

\* C2 witness: a sender that was in its own snapshot has had its message
\* sent to a peer and not to itself.
C2_Witness ==
    \E a, b \in Conns :
       /\ a # b
       /\ pc[a] = "send" /\ a \in passMembers[a]
       /\ snapshot[a] = <<b>>
       /\ log[a][b] # <<>> /\ log[a][a] = <<>>

\* C3: a message received from a connection of one room is never sent to a
\* connection of another room.
C3_RoomIsolation ==
    \A a, b \in Conns :
       /\ log[a][b] # <<>> => room[a] = room[b]
       /\ (pc[a] = "send" /\ b \in Range(snapshot[a])) => room[a] = room[b]

\* C3 witness: a message is being sent within one room while another room
\* has a member, which gets nothing.
C3_Witness ==
    \E a, b, c \in Conns :
       /\ room[a] = room[b] /\ room[c] # room[a]
       /\ pc[a] = "send" /\ Head(snapshot[a]) = b
       /\ c \in MembersOf(c)
       /\ log[a][c] = <<>>

\* C4 as stated: every send_text call targets a connection that is a member
\* of the room at the moment of the call.
C4_MemberAtSend ==
    \A a, b \in Conns : \A i \in 1..Len(log[a][b]) :
       b \notin log[a][b][i].departed

\* C4 as amended: every send_text call of a pass targets a connection that
\* was a member of the room when the pass took its snapshot, and so are the
\* connections still ahead in the list.
C4_MemberAtSnapshot ==
    \A a, b \in Conns :
       /\ \A i \in 1..Len(log[a][b]) : log[a][b][i].atSnap
       /\ (pc[a] = "send" /\ b \in Range(snapshot[a])) => b \in passMembers[a]

\* C4 witness: a call was made on a connection that was a member at the
\* snapshot and had left the room by the time of the call.
C4_Witness ==
    \E a, b \in Conns : \E i \in 1..Len(log[a][b]) :
       /\ log[a][b][i].atSnap
       /\ b \in log[a][b][i].departed
       /\ pc[b] = "left"

\* C5: a pass whose message is received after a connection has left never
\* calls send_text on that connection.
C5_NotAfterLeave ==
    \A a, b \in Conns :
       /\ \A i \in 1..Len(log[a][b]) : ~log[a][b][i].leftBefore
       /\ (pc[a] = "send" /\ b \in passLeft[a]) => b \notin Range(snapshot[a])

\* C5 witness: a has left, c's pass began after that, and c's message is
\* being sent to the remaining member b, with no call on a.
C5_Witness ==
    \E a, b, c \in Conns :
       /\ a # b /\ b # c /\ a # c
       /\ room[a] = room[c]
       /\ pc[c] = "send" /\ a \in passLeft[c]
       /\ Head(snapshot[c]) = b
       /\ Count(log, c, a, msg[c]) = 0

\* C6: a send_text that fails ends neither the pass nor the loop: the sender
\* stays joined, its finally block does not run, every peer still ahead in
\* the list stays on it (the next one is called at once), and a pass in which
\* a send failed ends with one call made on every other snapshot member.
C6_FailureSwallowed ==
    [][\A a \in Conns :
         /\ FailStep(a) =>
              /\ pc'[a] \in {"send", "recv"}
              /\ leaveCalls'[a] = leaveCalls[a]
              /\ a \in rooms'[room[a]]
              /\ Ahead(a) \subseteq Range(snapshot'[a])
              /\ Ahead(a) # {} => /\ pc'[a] = "send"
                                  /\ Head(snapshot'[a]) \in Ahead(a)
              /\ Ahead(a) = {} => pc'[a] = "recv"
         /\ (PassEnds(a) /\ \E b \in Conns : \E i \in 1..Len(log'[a][b]) :
                 log'[a][b][i].n = msg[a] /\ log'[a][b][i].res = "fail") =>
              \A b \in passMembers[a] \ {a} : Count(log', a, b, msg[a]) = 1]_vars

\* C6 witness: the send to b failed and the same message is now being sent
\* to c by a sender that is still joined.
C6_Witness ==
    \E a, b, c \in Conns :
       /\ a # b /\ b # c /\ a # c
       /\ pc[a] = "send" /\ Head(snapshot[a]) = c
       /\ a \in MembersOf(a)
       /\ \E i \in 1..Len(log[a][b]) :
             log[a][b][i].n = msg[a] /\ log[a][b][i].res = "fail"

\* C7: when a member of the snapshot has left the room during a pass, the
\* pass goes on: the sender's loop does not end, every peer still ahead in
\* the list stays on it, and the pass ends with one call made on every other
\* snapshot member.
C7_LeaveDuringPass ==
    [][\A a \in Conns :
         (SendStep(a) /\ \E p \in passMembers[a] : pc[p] = "left") =>
              /\ pc'[a] \in {"send", "recv"}
              /\ leaveCalls'[a] = leaveCalls[a]
              /\ Ahead(a) \subseteq Range(snapshot'[a])
              /\ Ahead(a) # {} => pc'[a] = "send"
              /\ pc'[a] = "recv" =>
                    \A b \in passMembers[a] \ {a} :
                       Count(log', a, b, msg[a]) = 1]_vars

\* C7 witness: p, a member of the snapshot, left during the pass, and the
\* call on the remaining member b was made after that.
C7_Witness ==
    \E a, b, p \in Conns :
       /\ a # b /\ b # p /\ a # p
       /\ pc[a] = "send" /\ Head(snapshot[a]) = b
       /\ pc[p] = "left" /\ p \in passMembers[a]
       /\ \E i \in 1..Len(log[a][b]) :
             /\ log[a][b][i].n = msg[a]
             /\ p \in log[a][b][i].departed
             /\ b \notin log[a][b][i].departed

\* C8: the finally block of a joined task runs exactly once, when the loop
\* ends, whether by a disconnect or by another receive error; afterwards the
\* connection is in no room, and it never joins, receives or sends again.
C8_LeaveOnce ==
    /\ [](\A c \in Conns :
            /\ leaveCalls[c] = IF pc[c] = "left" THEN 1 ELSE 0
            /\ exitSig[c] # "none" <=> pc[c] = "left"
            /\ pc[c] = "left" => exitSig[c] \in {"disconnect", "error"}
            /\ pc[c] = "left" => ~InSomeRoom(c))
    /\ [][\A c \in Conns : pc[c] = "left" =>
            /\ pc'[c] = "left"
            /\ log'[c] = log[c]
            /\ recvCount'[c] = recvCount[c]
            /\ leaveCalls'[c] = leaveCalls[c]]_vars

\* C8 witness: one loop has ended by a disconnect and another by an error,
\* both after joining, and both connections are out of their rooms.
C8_Witness ==
    \E c, d \in Conns :
       /\ exitSig[c] = "disconnect" /\ exitSig[d] = "error"
       /\ pc[c] = "left" /\ pc[d] = "left"
       /\ leaveCalls[c] = 1 /\ leaveCalls[d] = 1
       /\ ~InSomeRoom(c) /\ ~InSomeRoom(d)

\* C9: under fair scheduling a connection whose transport has ended is
\* eventually in no room.
C9_NoPhantom ==
    \A c \in Conns : (transport[c] = "ended") ~> ~InSomeRoom(c)

\* C9 witness: a transport ended while its task was in the middle of a pass,
\* still a member of the room.
C9_Witness ==
    \E c \in Conns :
       /\ transport[c] = "ended"
       /\ pc[c] = "send"
       /\ c \in MembersOf(c)

\* C10: the calls a's task makes on b carry a's messages in the order a's
\* task received them, each call returning before the next is made, and a
\* message is received only when no call of the previous pass is outstanding.
C10_Fifo ==
    /\ [](\A a, b \in Conns : \A i, j \in 1..Len(log[a][b]) :
            i < j => /\ log[a][b][i].n < log[a][b][j].n
                     /\ log[a][b][i].res # "pending")
    /\ [](\A a, b \in Conns : \A i \in 1..Len(log[a][b]) :
            log[a][b][i].res = "pending" =>
               /\ pc[a] = "send"
               /\ Head(snapshot[a]) = b
               /\ log[a][b][i].n = recvCount[a])
    /\ [][\A a \in Conns : ReceiveStep(a) =>
            /\ pc[a] = "recv"
            /\ \A b \in Conns : \A i \in 1..Len(log[a][b]) :
                  log[a][b][i].res # "pending"]_vars

\* C10 witness: two messages of a were delivered to b, the first before the
\* second.
C10_Witness ==
    \E a, b \in Conns :
       /\ Len(log[a][b]) = 2
       /\ log[a][b][1].n = 1 /\ log[a][b][1].res = "ok"
       /\ log[a][b][2].n = 2 /\ log[a][b][2].res = "ok"


\* A step in which c's task joins its room, and one in which it leaves it.
JoinStep(c) == pc[c] = "new" /\ pc'[c] # "new"
LeaveStep(c) == pc[c] # "left" /\ pc'[c] = "left"

\* Room names a leave may be given: those of the model and one never joined.
LeaveRooms == RoomNames \cup {"nowhere"}

\* C11: a join followed at once by the leave of the same room and connection
\* gives back the member set of that room and of every other room, a room
\* that was empty or unknown before having no members afterwards; in a run,
\* a join adds the connection to its room and nothing else, and a leave
\* removes it and nothing else.
C11_JoinThenLeave ==
    /\ [](\A ws \in Conns : \A r \in RoomNames :
            pc[ws] = "new" =>
               LET joined == Join(rooms, r, ws)
                   after  == Leave(joined, r, ws)
               IN  /\ ws \in Snapshot(joined, r)
                   /\ Snapshot(after, r) = Snapshot(rooms, r)
                   /\ \A x \in RoomNames \ {r} :
                         Snapshot(after, x) = Snapshot(rooms, x))
    /\ [][\A c \in Conns :
            /\ JoinStep(c) =>
                  /\ Snapshot(rooms', room'[c]) =
                        Snapshot(rooms, room'[c]) \cup {c}
                  /\ \A x \in RoomNames \ {room'[c]} :
                        Snapshot(rooms', x) = Snapshot(rooms, x)
            /\ LeaveStep(c) =>
                  /\ c \in Snapshot(rooms, room[c])
                  /\ Snapshot(rooms', room[c]) = Snapshot(rooms, room[c]) \ {c}
                  /\ \A x \in RoomNames \ {room[c]} :
                        Snapshot(rooms', x) = Snapshot(rooms, x)]_vars

\* C11 witness: a connection has joined a room nobody else ever entered and
\* left it without a message; the room has no members.
C11_Witness ==
    \E c \in Conns :
       /\ pc[c] = "left" /\ recvCount[c] = 0
       /\ Snapshot(rooms, room[c]) = {}
       /\ \A d \in Conns \ {c} : pc[d] = "new" \/ room[d] # room[c]
       /\ \E d \in Conns \ {c} : pc[d] # "new"

\* C12: a leave for a room that does not exist, or for a connection that is
\* not a member of it, gives back the registry unchanged, and a second leave
\* for the same room and connection changes nothing after the first.
C12_LeaveIdempotent ==
    \A ws \in Conns : \A r \in LeaveRooms :
       /\ (r \notin DOMAIN rooms \/ ws \notin rooms[r]) =>
             Leave(rooms, r, ws) = rooms
       /\ Leave(Leave(rooms, r, ws), r, ws) = Leave(rooms, r, ws)

\* C12 witness: the registry has a member, lacks a room, and holds the room
\* of a connection that has already left it.
C12_Witness ==
    \E c, d \in Conns :
       /\ pc[c] = "left" /\ room[c] \in DOMAIN rooms
       /\ d \in MembersOf(d)
       /\ \E r \in RoomNames : r \notin DOMAIN rooms


\* C13: a message received while the sender's room has no other member makes
\* no send_text call and leaves no pass behind; a join delivers nothing (no
\* call is made and no pass changes in the step that joins), a connection
\* that has not joined has been sent nothing, a pass in progress has none
\* of the connections that joined after its snapshot ahead of it, and every
\* call made on a connection belongs to a pass whose snapshot held it.
C13_NoRetention ==
    /\ [][\A a \in Conns :
            (ReceiveStep(a) /\ MembersOf(a) \ {a} = {}) =>
               /\ log' = log
               /\ pc'[a] = "recv"
               /\ snapshot'[a] = <<>>]_vars
    /\ [][\A b \in Conns :
            JoinStep(b) => (log' = log /\ snapshot' = snapshot)]_vars
    /\ [](\A a, b \in Conns :
            /\ pc[b] = "new" => log[a][b] = <<>>
            /\ (pc[a] = "send" /\ b \notin passMembers[a]) =>
                  b \notin Range(snapshot[a])
            /\ \A i \in 1..Len(log[a][b]) : log[a][b][i].atSnap)

\* C13 witness: a's message found no other member and caused no call; b has
\* joined a's room since, and has still been sent nothing.
C13_Witness ==
    \E a, b \in Conns :
       /\ a # b
       /\ pc[a] = "recv" /\ recvCount[a] >= 1
       /\ \A x \in Conns : log[a][x] = <<>>
       /\ a \in MembersOf(a) /\ b \in MembersOf(a)


\* The calls of a's task that have not returned yet.
Pending(a) ==
    {b \in Conns : \E i \in 1..Len(log[a][b]) : log[a][b][i].res = "pending"}

\* C14: a message received before the sender's connection ended is still
\* broadcast: while a's connection has ended and its pass is in progress, a
\* stays a member and its task stays in the pass or returns to receive_text,
\* the pass ending with one call made on every other member of its snapshot;
\* a's leave is taken from receive_text only, with no pass in progress and
\* no call outstanding, and a connection that has left has none either.
C14_LeaveAfterPass ==
    /\ [][\A a \in Conns :
            (pc[a] = "send" /\ transport[a] = "ended") =>
               /\ pc'[a] \in {"send", "recv"}
               /\ a \in Snapshot(rooms', room[a])
               /\ PassEnds(a) =>
                     \A b \in passMembers[a] \ {a} :
                        Count(log', a, b, msg[a]) = 1]_vars
    /\ [][\A a \in Conns :
            LeaveStep(a) =>
               /\ pc[a] = "recv"
               /\ snapshot[a] = <<>>
               /\ Pending(a) = {}]_vars
    /\ [](\A a \in Conns :
            pc[a] = "left" => (snapshot[a] = <<>> /\ Pending(a) = {}))

\* C14 witness: a's connection has ended while its pass is in progress: the
\* call on b has returned, the call on c is outstanding, a is a member.
C14_Witness ==
    \E a, b, c \in Conns :
       /\ a # b /\ b # c /\ a # c
       /\ transport[a] = "ended"
       /\ pc[a] = "send" /\ Head(snapshot[a]) = c
       /\ a \in MembersOf(a)
       /\ \E i \in 1..Len(log[a][b]) :
             log[a][b][i].n = msg[a] /\ log[a][b][i].res = "ok"
       /\ Pending(a) = {c}


\* c's request carried no room parameter, or carried one naming another room
\* than "default".
NoRoomGiven(c) == pc[c] # "new" /\ param[c] = Absent
OtherRoomGiven(c) ==
    pc[c] # "new" /\ param[c] # Absent /\ param[c] # "default"

\* C15: a connection whose request has no room parameter is placed in the
\* room "default": it is a member of rooms["default"] from its join to its
\* leave; two such connections are in the same room and the message one of
\* them receives from its client is sent to the other if it is a member;
\* a connection that gave another room name is never in "default" and no
\* call is ever made between it and a connection without the parameter.
C15_DefaultRoom ==
    /\ [](\A a \in Conns :
            NoRoomGiven(a) =>
               /\ room[a] = "default"
               /\ "default" \in DOMAIN rooms
               /\ pc[a] \in {"recv", "send"} <=> a \in rooms["default"]
               /\ \A b \in Conns \ {a} :
                     /\ NoRoomGiven(b) => room[b] = room[a]
                     /\ OtherRoomGiven(b) =>
                           /\ b \notin rooms["default"]
                           /\ log[a][b] = <<>> /\ log[b][a] = <<>>)
    /\ [][\A a, b \in Conns :
            (/\ a # b /\ ReceiveStep(a)
             /\ NoRoomGiven(a) /\ NoRoomGiven(b)
             /\ pc[b] \in {"recv", "send"}) =>
               /\ b \in Range(snapshot'[a])
               /\ Count(log', a, Head(snapshot'[a]), msg'[a]) = 1]_vars

\* C15 witness: a and b joined without the parameter and each has been sent
\* a message of the other; c joined room "alpha" and has been sent nothing.
C15_Witness ==
    \E a, b, c \in Conns :
       /\ a # b
       /\ NoRoomGiven(a) /\ NoRoomGiven(b) /\ OtherRoomGiven(c)
       /\ \E i \in 1..Len(log[a][b]) : log[a][b][i].res = "ok"
       /\ \E i \in 1..Len(log[b][a]) : log[b][a][i].res = "ok"
       /\ c \in MembersOf(c)
       /\ \A x \in Conns : log[x][c] = <<>>


\* s is what is left of t after some of its first elements.
IsSuffix(s, t) == \E k \in 0..Len(t) : s = SubSeq(t, k + 1, Len(t))

NoDuplicate(s) == \A i, j \in 1..Len(s) : i # j => s[i] # s[j]

\* C16: the list a pass iterates is the membership of the room at the one
\* instant its message was received: taking it does not change the registry,
\* it holds every other member of that instant and nobody else, none twice;
\* joins and leaves during the pass do not change it, what is left of it
\* being a suffix of what was left before, and at every moment of the pass
\* each other member of that instant is either still ahead or has been
\* called once.
C16_SnapshotConsistent ==
    /\ [][\A a \in Conns :
            ReceiveStep(a) =>
               /\ rooms' = rooms
               /\ Range(snapshot'[a]) \ {a} = MembersOf(a) \ {a}
               /\ Range(snapshot'[a]) \subseteq MembersOf(a)
               /\ NoDuplicate(snapshot'[a])
               /\ pc'[a] = "send" => passMembers'[a] = MembersOf(a)]_vars
    /\ [][\A a \in Conns :
            (pc[a] = "send" /\ pc'[a] = "send") =>
               /\ IsSuffix(snapshot'[a], snapshot[a])
               /\ passMembers'[a] = passMembers[a]]_vars
    /\ [](\A a \in Conns :
            pc[a] = "send" =>
               /\ NoDuplicate(snapshot[a])
               /\ Range(snapshot[a]) \subseteq passMembers[a]
               /\ \A b \in passMembers[a] \ {a} :
                     IF b \in Ahead(a)
                     THEN Count(log, a, b, msg[a]) = 0
                     ELSE Count(log, a, b, msg[a]) = 1)

\* C16 witness: during a's pass one member of its snapshot has left the room
\* and a connection that is not in the snapshot has joined it.
C16_Witness ==
    \E a, b, c \in Conns :
       /\ pc[a] = "send"
       /\ b \in MembersOf(a) \ passMembers[a]
       /\ c \in passMembers[a] \ MembersOf(a)
       /\ c \in Range(snapshot[a])


\* C17 (under FairSpec, where every send_text call returns or raises): a
\* task suspended in a send is the only one its peer holds up, every task in
\* a pass being able to take its next step whatever the others wait for;
\* every pass ends, and it ends with its sender back in receive_text, still
\* a member, one call made on every other member of its snapshot.
C17_PassTerminates ==
    /\ [](\A a \in Conns : pc[a] = "send" => ENABLED SendReturn(a, "ok"))
    /\ [][\A a \in Conns :
            PassEnds(a) =>
               /\ pc'[a] = "recv"
               /\ a \in Snapshot(rooms', room[a])
               /\ \A b \in passMembers[a] \ {a} :
                     Count(log', a, b, msg[a]) = 1]_vars
    /\ \A a \in Conns : (pc[a] = "send") ~> (pc[a] = "recv")

\* C17 witness: c's task is held up by its send to b, while a's task has made
\* its calls on b and on c for its own message and is back in receive_text.
C17_Witness ==
    \E a, b, c \in Conns :
       /\ a # b /\ b # c /\ a # c
       /\ pc[c] = "send" /\ Head(snapshot[c]) = b
       /\ pc[a] = "recv" /\ recvCount[a] = 1
       /\ Len(log[a][b]) = 1 /\ log[a][b][1].res # "pending"
       /\ Len(log[a][c]) = 1 /\ log[a][c][1].res # "pending"


\* The rooms whose member set holds c.
RoomsOf(c) == {r \in DOMAIN rooms : c \in rooms[r]}

\* C18: a connection is in the member set of room r exactly when its task
\* has joined with room r and has not left: it is in at most one room, and a
\* connection that has not joined yet, or has left, is in none.
C18_Membership ==
    \A c \in Conns :
       /\ \A r \in RoomNames \cup DOMAIN rooms :
             c \in Snapshot(rooms, r) <=>
                (pc[c] \in {"recv", "send"} /\ room[c] = r)
       /\ Cardinality(RoomsOf(c)) <= 1
       /\ pc[c] \in {"new", "left"} => RoomsOf(c) = {}

\* C18 witness: one connection is a member of "default", another of "alpha",
\* and a third has left the room it had joined.
C18_Witness ==
    \E a, b, c \in Conns :
       /\ RoomsOf(a) = {"default"}
       /\ RoomsOf(b) = {"alpha"}
       /\ pc[c] = "left" /\ RoomsOf(c) = {}

\* C19: no entry of the registry is ever deleted: the set of room names only
\* grows, the room of every connection that has joined is an entry, and the
\* leave of a room's last member leaves the entry with an empty set.
C19_RoomsKept ==
    /\ [][DOMAIN rooms \subseteq DOMAIN rooms']_vars
    /\ [][\A c \in Conns :
            (LeaveStep(c) /\ Snapshot(rooms, room[c]) = {c}) =>
               /\ room[c] \in DOMAIN rooms'
               /\ rooms'[room[c]] = {}]_vars
    /\ [](\A c \in Conns : pc[c] # "new" => room[c] \in DOMAIN rooms)

\* C19 witness: the last member of a room has left it and the room is still
\* an entry, with no members, next to a room that has one.
C19_Witness ==
    \E c \in Conns : \E r \in DOMAIN rooms :
       /\ pc[c] = "left" /\ room[c] = r
       /\ rooms[r] = {}
       /\ \E x \in DOMAIN rooms : rooms[x] # {}

====
